---- MODULE Spec2Model ----
(***************************************************************************)
(* Model of tools/convert_onshape_dxf.py: the option parser, main and the  *)
(* four passes it runs over the entities of a DXF drawing.                 *)
(*                                                                         *)
(* Numbers.  Lengths and coordinates are held as integers counted in       *)
(* 1/Unit of a drawing unit, with Unit = 5 * 127, so that one              *)
(* multiplication by 25.4 = 127/5 or by 1/25.4 = 5/127 is exact.  Angles   *)
(* are whole degrees.  Arithmetic is exact: the rounding of binary         *)
(* floating point is not modelled.                                         *)
(***************************************************************************)
EXTENDS Integers, Sequences, FiniteSets, TLC

VARIABLES entry, flags, file, dwg, pc, negative_extrusion_entities,
          entity_planes, non_z_zero, out, saved, err

vars == <<entry, flags, file, dwg, pc, negative_extrusion_entities,
          entity_planes, non_z_zero, out, saved, err>>

(***************************************************************************)
(* Bounds of the model.                                                    *)
(***************************************************************************)
MaxEntities == 2
MaxOpts == 2

(***************************************************************************)
(* Numbers.                                                                *)
(***************************************************************************)
Unit == 5 * 127

\* conversion factors as fractions <<numerator, denominator>>
NoConversion == <<1, 1>>
MetricConversion == <<127, 5>>
StandardConversion == <<5, 127>>

ScaleNum(x, conversion) == (x * conversion[1]) \div conversion[2]

(***************************************************************************)
(* Coordinate and angle helpers.                                           *)
(***************************************************************************)
\* flatten_coord without the flattening
flatten_coord_keeps_z(coord) == <<coord[1], coord[2], coord[3]>>

flatten_coord(coord) == <<coord[1], coord[2], 0>>

scale_coord(coord, conversion) ==
    <<ScaleNum(coord[1], conversion), ScaleNum(coord[2], conversion),
      ScaleNum(coord[3], conversion)>>

mirror_coord(coord) == <<-coord[1], coord[2], -coord[3]>>

mirror_angle(angle) == (180 - angle) % 360

(***************************************************************************)
(* Drawings: a sequence of entities, each a record of its dxf attributes.  *)
(***************************************************************************)
Points == {<<2 * Unit, 3 * Unit, z * Unit>> : z \in {0, 1}}
Radii == {2 * Unit}
StartAngles == {30, 270}
EndAngles == {-90, 360}
Extrusions == {<<0, 0, 1>>, <<0, 0, -1>>, <<1, 0, 0>>}

Circles == [type : {"CIRCLE"}, center : Points, radius : Radii,
            extrusion : Extrusions]
Arcs == [type : {"ARC"}, center : {<<2 * Unit, 3 * Unit, Unit>>}, radius : Radii,
         start_angle : StartAngles, end_angle : EndAngles,
         extrusion : {<<0, 0, 1>>, <<0, 0, -1>>}]
Lines == [type : {"LINE"}, start : Points, end : Points,
          extrusion : {<<0, 0, 1>>, <<0, 0, -1>>}]
Others == [type : {"POINT"}, location : {<<2 * Unit, 3 * Unit, Unit>>},
           extrusion : {<<0, 0, 1>>, <<0, 0, -1>>}]

Entities == Circles \cup Arcs \cup Lines \cup Others

Drawings == UNION {[1..n -> Entities] : n \in 0..MaxEntities}

\* the points of an entity that the passes look at
HasCenter(entity) == entity.type = "CIRCLE" \/ entity.type = "ARC"
IsLine(entity) == entity.type = "LINE"

(***************************************************************************)
(* Flags: a mapping from a subset of the keys 'unit_conversion', 'repair'  *)
(* and 'verbose'.  The float 1.0 that the option parser stores under       *)
(* 'unit_conversion' is the token FloatOne; PyIsStr tells the values that  *)
(* are Python str objects.                                                 *)
(***************************************************************************)
FloatOne == "1.0"
PyIsStr(value) == value \in {"metric", "standard"}

Has(mapping, key) == key \in DOMAIN mapping
Put(mapping, key, value) == (key :> value) @@ mapping
Del(mapping, key) == [k \in (DOMAIN mapping) \ {key} |-> mapping[k]]

EmptyMapping == [k \in {} |-> TRUE]

\* every mapping a caller of main can pass
FlagMappings ==
    {[k \in keys |-> CASE k = "unit_conversion" -> u
                       [] k = "repair" -> TRUE
                       [] k = "verbose" -> v] :
        keys \in SUBSET {"unit_conversion", "repair", "verbose"},
        u \in {FloatOne, "metric", "standard"},
        v \in BOOLEAN}

(***************************************************************************)
(* validate_negative_extrusion                                             *)
(***************************************************************************)
\* the test of the extrusion with <= in place of <
negative_extrusion_or_zero(entity) == entity.extrusion[3] <= 0

negative_extrusion(entity) == entity.extrusion[3] < 0

\* the repaired extrusion with the sign left negative
fixed_extrusion_negative == <<0, 0, -1>>

fixed_extrusion == <<0, 0, 1>>

mirror_circle(entity) ==
    [entity EXCEPT !.center = mirror_coord(entity.center),
                   !.extrusion = fixed_extrusion]

\* the ARC repair without the exchange of the two angles
mirror_arc_unswapped(entity) ==
    [entity EXCEPT !.start_angle = mirror_angle(entity.start_angle),
                   !.end_angle = mirror_angle(entity.end_angle),
                   !.center = mirror_coord(entity.center),
                   !.extrusion = fixed_extrusion]

mirror_arc(entity) ==
    [entity EXCEPT !.start_angle = mirror_angle(entity.end_angle),
                   !.end_angle = mirror_angle(entity.start_angle),
                   !.center = mirror_coord(entity.center),
                   !.extrusion = fixed_extrusion]

not_processed(entity) == [entity EXCEPT !.extrusion = fixed_extrusion]

\* the loop from entity i on; d is the drawing so far, n the count so far,
\* o the lines printed so far.  A KeyError leaves the drawing as it is at
\* the raise, and nothing is returned.
RECURSIVE negative_extrusion_loop(_, _, _, _, _)
negative_extrusion_loop(d, fl, i, n, o) ==
    IF i > Len(d)
    THEN [dwg |-> d, ret |-> n, out |-> o, err |-> "none"]
    ELSE LET entity == d[i] IN
         IF ~ negative_extrusion(entity)
         THEN negative_extrusion_loop(d, fl, i + 1, n, o)
         ELSE IF entity.type = "CIRCLE"
         THEN negative_extrusion_loop([d EXCEPT ![i] = mirror_circle(entity)],
                                      fl, i + 1, n + 1, o)
         ELSE IF entity.type = "ARC"
         THEN negative_extrusion_loop([d EXCEPT ![i] = mirror_arc(entity)],
                                      fl, i + 1, n + 1, o)
         ELSE IF ~ Has(fl, "verbose")
         THEN [dwg |-> d, ret |-> n + 1, out |-> o, err |-> "KeyError"]
         ELSE negative_extrusion_loop(
                  [d EXCEPT ![i] = not_processed(entity)], fl, i + 1, n + 1,
                  IF fl["verbose"] THEN Append(o, "type not processed!") ELSE o)

validate_negative_extrusion(d, fl) == negative_extrusion_loop(d, fl, 1, 0, <<>>)

(***************************************************************************)
(* validate_z_plane                                                        *)
(***************************************************************************)
z_values(d) ==
    {d[i].center[3] : i \in {j \in 1..Len(d) : HasCenter(d[j])}}
    \cup {d[i].start[3] : i \in {j \in 1..Len(d) : IsLine(d[j])}}
    \cup {d[i].end[3] : i \in {j \in 1..Len(d) : IsLine(d[j])}}

validate_z_plane(d, fl) ==
    [ret |-> Cardinality(z_values(d)),
     out |-> IF Has(fl, "verbose") THEN <<"z set">> ELSE <<>>]

(***************************************************************************)
(* validate_z_zero                                                         *)
(***************************************************************************)
off_z_zero(entity) ==
    IF HasCenter(entity) THEN entity.center[3] # 0
    ELSE IF IsLine(entity) THEN entity.start[3] # 0 \/ entity.end[3] # 0
    ELSE FALSE

flatten_entity(entity) ==
    IF HasCenter(entity)
    THEN [entity EXCEPT !.center = flatten_coord(entity.center)]
    ELSE IF IsLine(entity)
    THEN [entity EXCEPT !.start = flatten_coord(entity.start),
                        !.end = flatten_coord(entity.end)]
    ELSE entity

\* the lines the verbose flag prints, entity by entity
RECURSIVE z_zero_prints(_, _)
z_zero_prints(d, i) ==
    IF i > Len(d) THEN <<>>
    ELSE (IF ~ off_z_zero(d[i]) THEN <<>>
          ELSE IF HasCenter(d[i]) THEN <<"center">>
          ELSE <<"start", "end">>) \o z_zero_prints(d, i + 1)

validate_z_zero(d, fl) ==
    [dwg |-> [i \in 1..Len(d) |-> flatten_entity(d[i])],
     ret |-> Cardinality({i \in 1..Len(d) : off_z_zero(d[i])}),
     out |-> IF Has(fl, "verbose") THEN z_zero_prints(d, 1) ELSE <<>>]

(***************************************************************************)
(* scale                                                                   *)
(***************************************************************************)
conversion_of(fl) ==
    IF fl["unit_conversion"] = "metric" THEN MetricConversion
    ELSE IF fl["unit_conversion"] = "standard" THEN StandardConversion
    ELSE NoConversion

scale_entity(entity, conversion) ==
    IF HasCenter(entity)
    THEN [entity EXCEPT !.center = scale_coord(entity.center, conversion)]
    ELSE IF IsLine(entity)
    THEN [entity EXCEPT !.start = scale_coord(entity.start, conversion),
                        !.end = scale_coord(entity.end, conversion)]
    ELSE entity

scale(d, fl) ==
    IF ~ Has(fl, "unit_conversion")
    THEN [dwg |-> d, out |-> <<>>]
    ELSE [dwg |-> [i \in 1..Len(d) |-> scale_entity(d[i], conversion_of(fl))],
          out |-> IF ~ Has(fl, "verbose") THEN <<>>
                  ELSE IF fl["unit_conversion"] = "metric"
                  THEN <<"converting to metric">>
                  ELSE IF fl["unit_conversion"] = "standard"
                  THEN <<"coverting to standard">>
                  ELSE <<>>]

(***************************************************************************)
(* The script's option parser.                                             *)
(***************************************************************************)
ValidOptions == {"-d", "-m", "-s", "-v"}
Options == ValidOptions \cup {"-x"}
CommandLines == UNION {[1..n -> Options] : n \in 0..MaxOpts}

InitialFlags == [unit_conversion |-> FloatOne, repair |-> TRUE]

\* the loop over opts from option i on; del of a missing key raises
RECURSIVE parse_opts(_, _, _)
parse_opts(opts, i, fl) ==
    IF i > Len(opts) THEN [flags |-> fl, err |-> "none"]
    ELSE IF opts[i] = "-d"
    THEN IF Has(fl, "repair")
         THEN parse_opts(opts, i + 1, Del(fl, "repair"))
         ELSE [flags |-> fl, err |-> "KeyError"]
    ELSE IF opts[i] = "-s"
    THEN parse_opts(opts, i + 1, Put(fl, "unit_conversion", "standard"))
    ELSE IF opts[i] = "-m"
    THEN parse_opts(opts, i + 1, Put(fl, "unit_conversion", "metric"))
    ELSE parse_opts(opts, i + 1, Put(fl, "verbose", TRUE))

(***************************************************************************)
(* The state of one run.                                                   *)
(*   entry  how main was reached: "script" (the command line) or "import"  *)
(*   file   the entities of the input file, dwg the drawing in memory      *)
(*   out    the lines printed, saved the files written                     *)
(*   pc     the next step; "done" is a normal return, "raised" an          *)
(*          uncaught exception (named by err), "exit2" is sys.exit(2)      *)
(***************************************************************************)
Init ==
    /\ entry = "none"
    /\ flags = EmptyMapping
    /\ file = <<>>
    /\ dwg = <<>>
    /\ pc = "start"
    /\ negative_extrusion_entities = 0
    /\ entity_planes = 0
    /\ non_z_zero = 0
    /\ out = <<>>
    /\ saved = <<>>
    /\ err = "none"

\* the __main__ block, up to the call of main
RunScript ==
    /\ pc = "start"
    /\ \E opts \in CommandLines, has_inputfile \in BOOLEAN :
          LET getopt_error == \E i \in 1..Len(opts) : opts[i] \notin ValidOptions
              parsed == parse_opts(opts, 1, InitialFlags)
          IN /\ entry' = "script"
             /\ IF getopt_error
                THEN /\ flags' = InitialFlags
                     /\ out' = <<"USAGE">>
                     /\ pc' = "exit2"
                     /\ err' = "none"
                ELSE IF parsed.err # "none"
                THEN /\ flags' = parsed.flags
                     /\ out' = <<>>
                     /\ pc' = "raised"
                     /\ err' = parsed.err
                ELSE IF ~ has_inputfile
                THEN /\ flags' = parsed.flags
                     /\ out' = <<"USAGE">>
                     /\ pc' = "exit2"
                     /\ err' = "none"
                ELSE /\ flags' = parsed.flags
                     /\ out' = <<>>
                     /\ pc' = "read"
                     /\ err' = "none"
    /\ UNCHANGED <<file, dwg, negative_extrusion_entities, entity_planes,
                   non_z_zero, saved>>

\* main called by an importing module with a mapping of its own
CallMain ==
    /\ pc = "start"
    /\ \E fl \in FlagMappings : flags' = fl
    /\ entry' = "import"
    /\ pc' = "read"
    /\ UNCHANGED <<file, dwg, negative_extrusion_entities, entity_planes,
                   non_z_zero, out, saved, err>>

\* dwg = ezdxf.readfile(inputfile)
ReadFile ==
    /\ pc = "read"
    /\ \E d \in Drawings : file' = d /\ dwg' = d
    /\ pc' = "neg"
    /\ UNCHANGED <<entry, flags, negative_extrusion_entities, entity_planes,
                   non_z_zero, out, saved, err>>

ValidateNegativeExtrusion ==
    /\ pc = "neg"
    /\ LET r == validate_negative_extrusion(dwg, flags) IN
          /\ dwg' = r.dwg
          /\ out' = out \o r.out
          /\ err' = r.err
          /\ IF r.err = "none"
             THEN negative_extrusion_entities' = r.ret /\ pc' = "plane"
             ELSE UNCHANGED negative_extrusion_entities /\ pc' = "raised"
    /\ UNCHANGED <<entry, flags, file, entity_planes, non_z_zero, saved>>

ValidateZPlane ==
    /\ pc = "plane"
    /\ LET r == validate_z_plane(dwg, flags) IN
          /\ entity_planes' = r.ret
          /\ out' = out \o r.out
    /\ pc' = "zzero"
    /\ UNCHANGED <<entry, flags, file, dwg, negative_extrusion_entities,
                   non_z_zero, saved, err>>

ValidateZZero ==
    /\ pc = "zzero"
    /\ LET r == validate_z_zero(dwg, flags) IN
          /\ dwg' = r.dwg
          /\ non_z_zero' = r.ret
          /\ out' = out \o r.out
    /\ pc' = "scale"
    /\ UNCHANGED <<entry, flags, file, negative_extrusion_entities,
                   entity_planes, saved, err>>

Scale ==
    /\ pc = "scale"
    /\ LET r == scale(dwg, flags) IN
          /\ dwg' = r.dwg
          /\ out' = out \o r.out
    /\ pc' = "report"
    /\ UNCHANGED <<entry, flags, file, negative_extrusion_entities,
                   entity_planes, non_z_zero, saved, err>>

\* the messages and the save at the end of main
validation_errors ==
    (IF negative_extrusion_entities > 0
     THEN <<"VALIDATION ERROR: negative extrusion">> ELSE <<>>)
    \o (IF entity_planes > 1
        THEN <<"VALIDATION ERROR: non-planar">> ELSE <<>>)
    \o (IF non_z_zero > 0
        THEN <<"VALIDATION ERROR: not at z=0.0">> ELSE <<>>)

no_repair_needed ==
    negative_extrusion_entities = 0 /\ entity_planes = 1 /\ non_z_zero = 0

Report ==
    /\ pc = "report"
    /\ IF no_repair_needed
       THEN /\ out' = out \o validation_errors \o <<"SUCCESS">>
            /\ IF ~ Has(flags, "unit_conversion")
               THEN UNCHANGED <<saved, err>> /\ pc' = "done"
               ELSE IF PyIsStr(flags["unit_conversion"])
               THEN /\ saved' = Append(saved,
                                  [suffix |-> flags["unit_conversion"], dwg |-> dwg])
                    /\ pc' = "done"
                    /\ UNCHANGED err
               ELSE /\ err' = "TypeError"
                    /\ pc' = "raised"
                    /\ UNCHANGED saved
       ELSE /\ saved' = Append(saved, [suffix |-> "repaired", dwg |-> dwg])
            /\ out' = out \o validation_errors \o <<"Wrote repaired file">>
            /\ pc' = "done"
            /\ UNCHANGED err
    /\ UNCHANGED <<entry, flags, file, dwg, negative_extrusion_entities,
                   entity_planes, non_z_zero>>

Next ==
    \/ RunScript
    \/ CallMain
    \/ ReadFile
    \/ ValidateNegativeExtrusion
    \/ ValidateZPlane
    \/ ValidateZZero
    \/ Scale
    \/ Report

Spec == Init /\ [][Next]_vars

(***************************************************************************)
(* The two repair passes run twice in a row on one drawing, as a caller    *)
(* that feeds a repaired drawing back in would run them.                   *)
(***************************************************************************)
InitRepair ==
    /\ entry = "import"
    /\ flags \in FlagMappings
    /\ file \in Drawings
    /\ dwg = file
    /\ pc = "neg1"
    /\ negative_extrusion_entities = 0
    /\ entity_planes = 0
    /\ non_z_zero = 0
    /\ out = <<>>
    /\ saved = <<>>
    /\ err = "none"

RepairNegativeExtrusion ==
    /\ pc \in {"neg1", "neg2"}
    /\ LET r == validate_negative_extrusion(dwg, flags) IN
          /\ dwg' = r.dwg
          /\ out' = out \o r.out
          /\ err' = r.err
          /\ IF r.err = "none"
             THEN /\ negative_extrusion_entities' = r.ret
                  /\ pc' = IF pc = "neg1" THEN "zzero1" ELSE "zzero2"
             ELSE UNCHANGED negative_extrusion_entities /\ pc' = "raised"
    /\ UNCHANGED <<entry, flags, file, entity_planes, non_z_zero, saved>>

RepairZZero ==
    /\ pc \in {"zzero1", "zzero2"}
    /\ LET r == validate_z_zero(dwg, flags) IN
          /\ dwg' = r.dwg
          /\ non_z_zero' = r.ret
          /\ out' = out \o r.out
    /\ pc' = IF pc = "zzero1" THEN "neg2" ELSE "end"
    /\ UNCHANGED <<entry, flags, file, negative_extrusion_entities,
                   entity_planes, saved, err>>

NextRepair ==
    \/ RepairNegativeExtrusion
    \/ RepairZZero

SpecRepair == InitRepair /\ [][NextRepair]_vars

(***************************************************************************)
(* Properties.                                                             *)
(***************************************************************************)
Indices(d) == 1..Len(d)
Printed(line) == \E k \in 1..Len(out) : out[k] = line
NegativeOnEntry(d) == {i \in Indices(d) : d[i].extrusion[3] < 0}
AtZZero(entity) ==
    /\ HasCenter(entity) => entity.center[3] = 0
    /\ IsLine(entity) => entity.start[3] = 0 /\ entity.end[3] = 0

\* C1: every file main saves has the center of each CIRCLE and ARC and the
\* start and end of each LINE at Z = 0, whatever the drawing and the flags.
SavedGeometryAtZZero ==
    \A k \in 1..Len(saved) :
        \A i \in Indices(saved[k].dwg) : AtZZero(saved[k].dwg[i])

\* C1 witness: a file was saved after a unit conversion of a drawing that
\* had an entity off Z = 0.
SavedScaledOffZDrawing ==
    /\ Len(saved) > 0
    /\ \E i \in Indices(file) : off_z_zero(file[i])
    /\ Has(flags, "unit_conversion")
    /\ flags["unit_conversion"] = "metric"

\* C2: when validate_negative_extrusion has returned, its result is the
\* number of entities whose extrusion Z was negative on entry, each of them
\* has extrusion (0, 0, 1), no entity has a negative extrusion Z, and every
\* entity whose extrusion Z was >= 0 is unchanged.
NegativeExtrusionContract ==
    pc = "plane" =>
        /\ negative_extrusion_entities = Cardinality(NegativeOnEntry(file))
        /\ Len(dwg) = Len(file)
        /\ \A i \in Indices(file) :
              /\ file[i].extrusion[3] < 0 => dwg[i].extrusion = <<0, 0, 1>>
              /\ file[i].extrusion[3] >= 0 => dwg[i] = file[i]
              /\ dwg[i].extrusion[3] >= 0

\* C2 witness: the pass returned on a drawing with a negative extrusion and
\* with an extrusion whose Z is 0.
ReturnedOnMixedExtrusions ==
    /\ pc = "plane"
    /\ \E i \in Indices(file) : file[i].extrusion[3] < 0
    /\ \E j \in Indices(file) : file[j].extrusion[3] = 0

\* C3: validate_negative_extrusion mirrors the start and the end of every
\* LINE whose extrusion Z is negative.
NegativeLinesMirrored ==
    pc = "plane" =>
        \A i \in Indices(file) :
            (IsLine(file[i]) /\ file[i].extrusion[3] < 0) =>
                /\ dwg[i].start = mirror_coord(file[i].start)
                /\ dwg[i].end = mirror_coord(file[i].end)

\* C4: without the 'repair' key (-d/--dontfix) main only validates: no
\* entity attribute is modified and no ' repaired' file is written; with
\* the key, the saved drawing has its defects repaired.
DontFixOnlyValidates ==
    /\ (pc \notin {"start", "read"} /\ ~ Has(flags, "repair")) =>
          /\ dwg = file
          /\ \A k \in 1..Len(saved) : saved[k].suffix # "repaired"
    /\ (pc = "done" /\ Has(flags, "repair")) =>
          \A i \in Indices(dwg) : dwg[i].extrusion[3] >= 0 /\ AtZZero(dwg[i])

\* C5: with 'metric' or 'standard' requested, scale multiplies the center
\* and the radius of every CIRCLE and ARC and the start and end of every
\* LINE by the conversion factor.
ScaleIsUniform ==
    [][(/\ pc = "scale"
        /\ Has(flags, "unit_conversion")
        /\ flags["unit_conversion"] \in {"metric", "standard"}) =>
          LET k == IF flags["unit_conversion"] = "metric"
                   THEN <<127, 5>> ELSE <<5, 127>>
          IN \A i \in Indices(dwg) :
                /\ HasCenter(dwg[i]) =>
                      /\ dwg'[i].center = scale_coord(dwg[i].center, k)
                      /\ dwg'[i].radius = ScaleNum(dwg[i].radius, k)
                /\ IsLine(dwg[i]) =>
                      /\ dwg'[i].start = scale_coord(dwg[i].start, k)
                      /\ dwg'[i].end = scale_coord(dwg[i].end, k)]_vars

\* a drawing without defect: no negative extrusion, at most one Z plane,
\* every point at Z = 0
NoDefect(d) ==
    /\ NegativeOnEntry(d) = {}
    /\ Cardinality(z_values(d)) <= 1
    /\ \A i \in Indices(d) : ~ off_z_zero(d[i])

ValidationErrorPrinted ==
    \/ Printed("VALIDATION ERROR: negative extrusion")
    \/ Printed("VALIDATION ERROR: non-planar")
    \/ Printed("VALIDATION ERROR: not at z=0.0")

RepairedWritten == \E k \in 1..Len(saved) : saved[k].suffix = "repaired"

\* C6: main prints SUCCESS exactly when the drawing has no defect, and when
\* it writes the ' repaired' file a VALIDATION ERROR line has been printed,
\* also for a drawing without any CIRCLE, ARC or LINE.
ReportMatchesDefects ==
    pc = "done" =>
        /\ Printed("SUCCESS") <=> NoDefect(file)
        /\ RepairedWritten => ValidationErrorPrinted

CleanRunReturnsNormally ==
    (/\ entry = "script"
     /\ pc \in {"done", "raised"}
     /\ flags["unit_conversion"] = FloatOne
     /\ NegativeOnEntry(file) = {}
     /\ Cardinality(z_values(file)) = 1
     /\ \A i \in Indices(file) : ~ off_z_zero(file[i])) =>
        /\ pc = "done"
        /\ err = "none"
        /\ Printed("SUCCESS")
        /\ dwg = file

\* C9: with any flags the command line produces, validate_negative_extrusion
\* returns normally, having counted every negative-extrusion entity and set
\* its extrusion to (0, 0, 1), also without 'verbose' on a drawing with a
\* negative-extrusion LINE.
NegativeExtrusionAlwaysReturns ==
    [][(entry = "script" /\ pc = "neg") =>
          /\ pc' = "plane"
          /\ err' = "none"
          /\ negative_extrusion_entities' = Cardinality(NegativeOnEntry(dwg))
          /\ \A i \in NegativeOnEntry(dwg) : dwg'[i].extrusion = <<0, 0, 1>>]_vars

\* C10: once validate_negative_extrusion and validate_z_zero have returned,
\* a second run of the two passes returns 0 from both and changes no
\* attribute of any entity.
RepairIsIdempotent ==
    [][/\ pc = "neg2" =>
             /\ pc' = "zzero2"
             /\ negative_extrusion_entities' = 0
             /\ dwg' = dwg
       /\ pc = "zzero2" =>
             /\ non_z_zero' = 0
             /\ dwg' = dwg]_vars

\* C10 witness: the second run ended on a drawing that the first run had
\* to repair in both ways.
SecondRunEndedAfterRepairs ==
    /\ pc = "end"
    /\ \E i \in Indices(file) : file[i].extrusion[3] < 0
    /\ \E j \in Indices(file) : off_z_zero(file[j])

====
